---- MODULE Spec2Model ----
(***************************************************************************)
(* Node-RED SFTP node, queued variant (src/transports/sftp/index.js):      *)
(* Spec, FairSpec, SpecTwo.  The unqueued variant (src/unnamed/part_000)   *)
(* is SpecU, and the paths of a put in both variants are SpecPath.         *)
(*                                                                         *)
(* Every flow node holds a reference to a configuration node (node.cfg).   *)
(* The configuration node carries the cached session (_client) and the     *)
(* promise chain (_busy) on which the input handler queues run().          *)
(*                                                                         *)
(* One flow node is deployed per (configuration node, operation) pair, so  *)
(* a flow node is named by that pair.  A session object is named by the    *)
(* index of the message whose run() created it with `new SFTP()`.          *)
(*                                                                         *)
(* JavaScript is single threaded: the code between two awaits is one       *)
(* action, and promise reactions (microtasks) run before the next event    *)
(* (an input message, a close event, the return of a remote call).         *)
(***************************************************************************)
EXTENDS Integers, Sequences, FiniteSets, TLC

\* Bounds of the model.
MaxMsgs   == 2        \* input messages over the whole run
MaxCloses == 1        \* node close (redeploy) events over the whole run

\* Sizes of upload sources ("hello" has 5 bytes) and sizes stat may report
\* for the remote file (3: a truncated transfer).
SrcSizes    == {5}
RemoteSizes == {3, 5}

Cfgs == {"cfgA", "cfgB"}

\* The flow nodes of the deployed flow: <<configuration node, operation>>.
OneCfgFlow ==
    {<<"cfgA", op>> : op \in {"open", "close", "list", "put", "bogus"}}

SingleCallOps == {"list", "mkdir", "rmdir", "get", "delete"}
Ops == {"open", "close", "put", "bogus"} \cup SingleCallOps

SrcKinds == {"file", "literal", "buffer", "stream"}

NoSize == -2          \* null: no size known
StatFailSize == -1

VARIABLES
    flow,       \* the flow nodes deployed, each <<node.cfg, node.operation>>
    creds,      \* creds[c]: node.cfg.credentials is an object (TRUE) or undefined
    msgs,       \* the input messages received so far, in arrival order
    busy,       \* busy[c]: node.cfg._busy, the message whose chain promise it is
                \* (0: the Promise.resolve() of the constructor)
    run,        \* run[m]: the state of run() for message m, and of its chain promise
    client,     \* client[c]: node.cfg._client, 0 for null, else a session
    endCalls,   \* endCalls[s]: how often end() was invoked on session s
    status,     \* status[c][op]: the last node.status() of the flow node
    closers,    \* the node.on('close') handlers registered so far
    xfer        \* one put followed path by path: its inputs, paths, directory

vars == <<flow, creds, msgs, busy, run, client, endCalls, status, closers, xfer>>

Msgs == 1..Len(msgs)
Cfg(m) == msgs[m].cfg
Op(m)  == msgs[m].op

\* The message on whose chain promise run(m) was attached with then(); 0: none.
Prev(m) == msgs[m].after

\* State of the chain promise of message k (k = 0: the Promise.resolve() of
\* the constructor).
BusyState(k) == IF k = 0 THEN "fulfilled" ELSE run[k].busy

NewRun ==
    [pc |-> "queued", busy |-> "pending", outcome |-> "none",
     sftp |-> 0, hadCache |-> FALSE,
     connects |-> 0, called |-> FALSE, ends |-> 0,
     sent |-> 0, doneOk |-> 0, doneErr |-> 0,
     st |-> NoSize, okSize |-> NoSize,
     foundEnded |-> FALSE, usedEnded |-> FALSE, cacheAtEnd |-> 0]

\* The state after the constructors of the flow nodes of flow f.
InitFlow(f) ==
    /\ flow = f
    /\ creds \in [{n[1] : n \in f} -> BOOLEAN]
    /\ msgs = <<>>
    /\ busy = [c \in {n[1] : n \in f} |-> 0]
    /\ run = <<>>
    /\ client = [c \in {n[1] : n \in f} |-> 0]
    /\ endCalls = <<>>
    /\ status = [n \in f |-> "none"]
    /\ closers = <<>>

\* No put is followed path by path.
NoXfer == [pc |-> "off"]

Init == InitFlow(OneCfgFlow) /\ xfer = NoXfer

\* A deployment with two configuration nodes.
TwoCfgFlow ==
    {<<"cfgA", "put">>, <<"cfgA", "open">>, <<"cfgB", "list">>, <<"cfgB", "close">>}

InitTwo == InitFlow(TwoCfgFlow) /\ xfer = NoXfer

(***************************************************************************)
(* run(): the pieces between two awaits.  A bundle carries what a piece    *)
(* of run() for message m may change: its own record, the status of its    *)
(* flow node, the _client of its configuration node, the sessions.         *)
(***************************************************************************)
Bundle(m) ==
    [r |-> run[m], st |-> status[<<Cfg(m), Op(m)>>], cl |-> client[Cfg(m)], ec |-> endCalls]

Apply(m, b) ==
    /\ run' = [run EXCEPT ![m] = b.r]
    /\ status' = [status EXCEPT ![<<Cfg(m), Op(m)>>] = b.st]
    /\ client' = [client EXCEPT ![Cfg(m)] = b.cl]
    /\ endCalls' = b.ec
    /\ UNCHANGED <<flow, creds, msgs, busy, closers, xfer>>

\* Without the catch a rejection stays in the chain.
CatchNothing(p) == p

\* .catch(() => {}) of the input handler: the chain promise is fulfilled
\* whether the promise of run() was fulfilled or rejected.
Catch(p) == "fulfilled"

\* run() returns or throws: the promise of the chain entry settles.
Settle(b, outcome, p) ==
    [b EXCEPT !.r.pc = "done", !.r.outcome = outcome, !.r.busy = Catch(p),
              !.r.st = NoSize, !.r.cacheAtEnd = b.cl]

\* sftp.end() is invoked on the session of the run.
InvokeEnd(b) == [b EXCEPT !.r.ends = @ + 1, !.ec[b.r.sftp] = @ + 1]

\* A remote file or directory call is invoked on the session of the run.
Invoke(b, name) ==
    [b EXCEPT !.r.called = TRUE,
              !.r.usedEnded = @ \/ b.ec[b.r.sftp] > 0]

\* An auto-close that forgets that the session was cached.
AutoCloseCached(hadCache, op) == op # "open"

\* The condition of the auto-close in the finally block.
AutoClose(hadCache, op) == ~hadCache /\ op # "open"

\* finally { ... }: auto-close a session opened for this message only.
Finally(m, b, outcome) ==
    IF AutoClose(b.r.hadCache, Op(m))
    THEN [InvokeEnd(b) EXCEPT !.r.pc = "autoend", !.r.outcome = outcome]
    ELSE Settle([b EXCEPT !.st = IF b.r.hadCache THEN @ ELSE "none"],
                outcome, "fulfilled")

\* The end of the try block: status 'done', send(msg).
Succeed(m, b) ==
    Finally(m, [b EXCEPT !.st = "green", !.r.sent = @ + 1,
                         !.r.okSize = IF Op(m) = "put" THEN b.r.st ELSE @], "ok")

\* A catch that returns without the cleanup of the finally block.
FailNoCleanup(m, b) ==
    Settle([b EXCEPT !.st = "redError", !.r.doneErr = @ + 1], "err", "fulfilled")

\* catch (err): status 'error', node.error, done(err).
Fail(m, b) == Finally(m, [b EXCEPT !.st = "redError", !.r.doneErr = @ + 1], "err")

\* The try block up to its first await: status, then the switch.
Dispatch(m, b) ==
    LET y == [b EXCEPT !.st = "yellow"]
    IN  CASE Op(m) = "open"          -> Succeed(m, y)
          [] Op(m) = "close"         -> [InvokeEnd(y) EXCEPT !.r.pc = "end"]
          [] Op(m) \in SingleCallOps -> [Invoke(y, Op(m)) EXCEPT !.r.pc = "call"]
          [] Op(m) = "put"           -> [Invoke(y, "mkdir") EXCEPT !.r.pc = "mkdir"]
          [] OTHER                   -> Fail(m, y)

\* The connection options dereference node.cfg.credentials.passphrase
\* unconditionally: a TypeError when credentials is undefined.
OptsThrow(m) == ~creds[Cfg(m)]

\* const exp = ...: the expected size of the upload source, NoSize for null.
Exp(msg) ==
    CASE msg.src = "file"   -> msg.size
      [] msg.src = "buffer" -> msg.size
      [] OTHER              -> NoSize

\* st.size !== exp with exp known: the size-mismatch test.
Mismatch(exp, sz) == exp # NoSize /\ sz # exp

(***************************************************************************)
(* The chain: then(() => run(...)) runs once the previous chain promise    *)
(* has settled, after the reactions registered on that promise before it.  *)
(***************************************************************************)
\* run() called from the input handler directly, not chained.
CanStartUnchained(m) == TRUE

CanStart(m) == BusyState(Prev(m)) # "pending"

ClosersFirst(m) ==
    \A h \in 1..Len(closers) :
        (closers[h].cfg = Cfg(m) /\ closers[h].after = Prev(m))
            => closers[h].pc # "waiting"

\* A close handler that does not wait for the chain.
CloserReadyNow(h) == closers[h].pc = "waiting"

CloserReady(h) ==
    /\ closers[h].pc = "waiting"
    /\ BusyState(closers[h].after) # "pending"
    /\ \A g \in 1..(h - 1) :
          (closers[g].cfg = closers[h].cfg /\ closers[g].after = closers[h].after)
              => closers[g].pc # "waiting"

RunReady(m) == run[m].pc = "queued" /\ CanStart(m) /\ ClosersFirst(m)

\* A promise reaction is due: it runs before the next event is delivered.
MicrotaskReady ==
    \/ \E m \in Msgs : RunReady(m)
    \/ \E h \in 1..Len(closers) : CloserReady(h)

(***************************************************************************)
(* Actions                                                                 *)
(***************************************************************************)
\* One chain shared by every configuration node.
ChainGlobal(c) == Len(msgs)

\* node.cfg._busy: the chain promise of the node's own configuration node.
Chain(c) == busy[c]

\* node.on('input'): queue run() behind node.cfg._busy.
Input(c, op, src, size) ==
    /\ <<c, op>> \in flow
    /\ Len(msgs) < MaxMsgs
    /\ ~MicrotaskReady
    /\ msgs' = Append(msgs, [cfg |-> c, op |-> op, src |-> src, size |-> size,
                             after |-> Chain(c)])
    /\ busy' = [busy EXCEPT ![c] = Len(msgs) + 1]
    /\ run' = Append(run, NewRun)
    /\ endCalls' = Append(endCalls, 0)
    /\ UNCHANGED <<flow, creds, client, status, closers, xfer>>

\* The then-callback: run() from its first line to its first await.
RunStart(m) ==
    /\ RunReady(m)
    /\ LET b == Bundle(m) IN
       IF BusyState(Prev(m)) = "rejected"
       THEN Apply(m, Settle(b, "skipped", "rejected"))
       ELSE IF OptsThrow(m)
       THEN Apply(m, Settle(b, "threw", "rejected"))
       ELSE IF client[Cfg(m)] = 0
       THEN Apply(m, [b EXCEPT !.st = "blue", !.r.sftp = m, !.r.hadCache = FALSE,
                               !.r.connects = @ + 1, !.r.pc = "connect"])
       ELSE Apply(m, Dispatch(m, [b EXCEPT !.r.sftp = client[Cfg(m)],
                                          !.r.hadCache = TRUE,
                                          !.r.foundEnded = endCalls[client[Cfg(m)]] > 0]))

\* A connect that stores the handle of an 'open' before it is established.
AfterConnectCachedEarly(m, b, ok) ==
    LET c == [b EXCEPT !.cl = IF Op(m) = "open" THEN b.r.sftp ELSE @, !.st = "none"]
    IN  IF ok THEN Dispatch(m, c)
        ELSE Settle([c EXCEPT !.r.doneErr = @ + 1], "connfail", "fulfilled")

\* A connect failure that reports the error but does not return.
AfterConnectNoReturn(m, b, ok) ==
    Dispatch(m, [b EXCEPT !.cl = IF ok /\ Op(m) = "open" THEN b.r.sftp ELSE @,
                          !.st = "none",
                          !.r.doneErr = IF ok THEN @ ELSE @ + 1])

\* try { await sftp.connect(opts); ... } catch ... finally: the handle is
\* cached for 'open' and the try block follows, or done(err) and return.
AfterConnect(m, b, ok) ==
    IF ok
    THEN Dispatch(m, [b EXCEPT !.cl = IF Op(m) = "open" THEN b.r.sftp ELSE @,
                               !.st = "none"])
    ELSE Settle([b EXCEPT !.st = "none", !.r.doneErr = @ + 1], "connfail", "fulfilled")

\* await sftp.connect(opts) returns or throws.
ConnectReturn(m, ok) ==
    /\ run[m].pc = "connect"
    /\ ~MicrotaskReady
    /\ Apply(m, AfterConnect(m, Bundle(m), ok))

\* case 'close': await sftp.end() returns or throws.
CloseEndReturn(m, ok) ==
    /\ run[m].pc = "end"
    /\ ~MicrotaskReady
    /\ LET b == Bundle(m) IN
       IF ok THEN Apply(m, Succeed(m, [b EXCEPT !.cl = 0]))
             ELSE Apply(m, Fail(m, b))

\* list, mkdir, rmdir, get, delete: the one remote call returns or throws.
CallReturn(m, ok) ==
    /\ run[m].pc = "call"
    /\ ~MicrotaskReady
    /\ LET b == Bundle(m) IN
       IF ok THEN Apply(m, Succeed(m, b)) ELSE Apply(m, Fail(m, b))

\* case 'put': await sftp.mkdir(workdir, true).catch(() => {}).
PutMkdirReturn(m, ok) ==
    /\ run[m].pc = "mkdir"
    /\ ~MicrotaskReady
    /\ Apply(m, [Invoke(Bundle(m), "cwd") EXCEPT !.r.pc = "cwd"])

\* case 'put': await sftp.cwd(workdir), then fastPut or put is called.
PutCwdReturn(m, ok) ==
    /\ run[m].pc = "cwd"
    /\ ~MicrotaskReady
    /\ LET b == Bundle(m) IN
       IF ok
       THEN Apply(m, [Invoke(b, IF msgs[m].src = "file" THEN "fastPut" ELSE "put")
                         EXCEPT !.r.pc = "upload"])
       ELSE Apply(m, Fail(m, b))

\* case 'put': the upload returns or throws.
PutUploadReturn(m, ok) ==
    /\ run[m].pc = "upload"
    /\ ~MicrotaskReady
    /\ LET b == Bundle(m) IN
       IF ok THEN Apply(m, [Invoke(b, "stat") EXCEPT !.r.pc = "stat"])
             ELSE Apply(m, Fail(m, b))

\* case 'put': stat returns size sz (StatFailSize: stat threw), the size test,
\* the result payload, then cwd('..') is called.
PutStatReturn(m, sz) ==
    /\ run[m].pc = "stat"
    /\ ~MicrotaskReady
    /\ LET b == [Bundle(m) EXCEPT !.r.st = sz] IN
       IF Mismatch(Exp(msgs[m]), sz)
       THEN Apply(m, Fail(m, b))
       ELSE Apply(m, [Invoke(b, "cwd") EXCEPT !.r.pc = "cwdBack"])

\* case 'put': await sftp.cwd('..') returns or throws.
PutCwdBackReturn(m, ok) ==
    /\ run[m].pc = "cwdBack"
    /\ ~MicrotaskReady
    /\ LET b == Bundle(m) IN
       IF ok THEN Apply(m, Succeed(m, b)) ELSE Apply(m, Fail(m, b))

\* finally: try { await sftp.end(); } catch (_) {} returns; status cleared.
AutoEndReturn(m, ok) ==
    /\ run[m].pc = "autoend"
    /\ ~MicrotaskReady
    /\ LET b == Bundle(m) IN
       Apply(m, Settle([b EXCEPT !.st = "none"], b.r.outcome, "fulfilled"))

\* node.on('close'): the handler is attached to the current node.cfg._busy.
CloseEvent(c) ==
    /\ c \in DOMAIN creds
    /\ Len(closers) < MaxCloses
    /\ ~MicrotaskReady
    /\ closers' = Append(closers, [cfg |-> c, after |-> busy[c], pc |-> "waiting",
                                   cli |-> 0, doneClose |-> 0])
    /\ UNCHANGED <<flow, creds, msgs, busy, run, client, endCalls, status, xfer>>

\* The finally-callback of the close handler, up to its await.
CloserStart(h) ==
    /\ CloserReady(h)
    /\ LET cli == client[closers[h].cfg] IN
       IF cli # 0
       THEN /\ closers' = [closers EXCEPT ![h].pc = "ending", ![h].cli = cli]
            /\ endCalls' = [endCalls EXCEPT ![cli] = @ + 1]
       ELSE /\ closers' = [closers EXCEPT ![h].pc = "done", ![h].doneClose = @ + 1]
            /\ UNCHANGED endCalls
    /\ UNCHANGED <<flow, creds, msgs, busy, run, client, status, xfer>>

\* try { await cli.end(); } catch (_) {} returns: _client = null, doneClose().
CloserEndReturn(h, ok) ==
    /\ closers[h].pc = "ending"
    /\ ~MicrotaskReady
    /\ closers' = [closers EXCEPT ![h].pc = "done", ![h].doneClose = @ + 1]
    /\ client' = [client EXCEPT ![closers[h].cfg] = 0]
    /\ UNCHANGED <<flow, creds, msgs, busy, run, endCalls, status, xfer>>

Next ==
    \/ \E c \in Cfgs, op \in Ops \ {"put"} : Input(c, op, "none", NoSize)
    \/ \E c \in Cfgs, src \in SrcKinds \ {"stream"}, size \in SrcSizes :
          Input(c, "put", src, size)
    \/ \E c \in Cfgs : Input(c, "put", "stream", NoSize)
    \/ \E c \in Cfgs : CloseEvent(c)
    \/ \E m \in Msgs : RunStart(m)
    \/ \E h \in 1..Len(closers) : CloserStart(h)
    \/ \E m \in Msgs, ok \in BOOLEAN : ConnectReturn(m, ok)
    \/ \E m \in Msgs, ok \in BOOLEAN : CloseEndReturn(m, ok)
    \/ \E m \in Msgs, ok \in BOOLEAN : CallReturn(m, ok)
    \/ \E m \in Msgs, ok \in BOOLEAN : PutMkdirReturn(m, ok)
    \/ \E m \in Msgs, ok \in BOOLEAN : PutCwdReturn(m, ok)
    \/ \E m \in Msgs, ok \in BOOLEAN : PutUploadReturn(m, ok)
    \/ \E m \in Msgs, sz \in RemoteSizes \cup {StatFailSize} : PutStatReturn(m, sz)
    \/ \E m \in Msgs, ok \in BOOLEAN : PutCwdBackReturn(m, ok)
    \/ \E m \in Msgs, ok \in BOOLEAN : AutoEndReturn(m, ok)
    \/ \E h \in 1..Len(closers), ok \in BOOLEAN : CloserEndReturn(h, ok)

Spec == Init /\ [][Next]_vars

\* The event loop runs every due promise reaction, and every remote call
\* returns: every step but the arrival of a message or of a close event.
Progress ==
    \/ \E m \in Msgs : RunStart(m)
    \/ \E h \in 1..Len(closers) : CloserStart(h)
    \/ \E m \in Msgs, ok \in BOOLEAN : ConnectReturn(m, ok)
    \/ \E m \in Msgs, ok \in BOOLEAN : CloseEndReturn(m, ok)
    \/ \E m \in Msgs, ok \in BOOLEAN : CallReturn(m, ok)
    \/ \E m \in Msgs, ok \in BOOLEAN : PutMkdirReturn(m, ok)
    \/ \E m \in Msgs, ok \in BOOLEAN : PutCwdReturn(m, ok)
    \/ \E m \in Msgs, ok \in BOOLEAN : PutUploadReturn(m, ok)
    \/ \E m \in Msgs, sz \in RemoteSizes \cup {StatFailSize} : PutStatReturn(m, sz)
    \/ \E m \in Msgs, ok \in BOOLEAN : PutCwdBackReturn(m, ok)
    \/ \E m \in Msgs, ok \in BOOLEAN : AutoEndReturn(m, ok)
    \/ \E h \in 1..Len(closers), ok \in BOOLEAN : CloserEndReturn(h, ok)

FairSpec == Spec /\ WF_vars(Progress)

SpecTwo == InitTwo /\ [][Next]_vars

(***************************************************************************)
(* The unqueued variant (src/unnamed/part_000): the input handler is the   *)
(* operation itself, and nothing orders two handlers of one configuration  *)
(* node.  It uses the same state; busy and closers stay empty (the variant *)
(* has no chain and no close handler).                                     *)
(***************************************************************************)
UFlow == {<<"cfgA", op>> : op \in {"list", "close", "put", "bogus"}}

\* Both registrations of the configuration node carry the credentials schema.
InitU ==
    /\ flow = UFlow
    /\ creds = [c \in {n[1] : n \in UFlow} |-> TRUE]
    /\ msgs = <<>>
    /\ busy = [c \in {n[1] : n \in UFlow} |-> 0]
    /\ run = <<>>
    /\ client = [c \in {n[1] : n \in UFlow} |-> 0]
    /\ endCalls = <<>>
    /\ status = [n \in UFlow |-> "none"]
    /\ closers = <<>>
    /\ xfer = NoXfer

\* The handler returns or rejects: nothing of it remains.
USettle(b, outcome) == [b EXCEPT !.r.pc = "done", !.r.outcome = outcome,
                                 !.r.cacheAtEnd = b.cl]

\* send(msg); done && done();
USucceed(b) == USettle([b EXCEPT !.r.sent = @ + 1, !.r.doneOk = @ + 1], "ok")

\* catch (err): red status, node.error, done(err).
UFail(b) == USettle([b EXCEPT !.st = "redError", !.r.doneErr = @ + 1], "err")

\* The size the upload is expected to have: known for a local file, a
\* literal string and a Buffer, unknown for a stream.
UExp(msg) == IF msg.src = "stream" THEN NoSize ELSE msg.size

\* const prevDir = await sftp.cwd();
UPrevDir(b) == [Invoke(b, "cwd") EXCEPT !.r.pc = "prevDir"]

\* node.on('input') up to its first await: reuse the cached handle, or
\* create one and connect.
UInput(c, op, src, size) ==
    /\ <<c, op>> \in flow
    /\ Len(msgs) < MaxMsgs
    /\ LET m == Len(msgs) + 1
           b == [r  |-> NewRun, st |-> status[<<c, op>>], cl |-> client[c],
                 ec |-> Append(endCalls, 0)]
           n == IF client[c] = 0
                THEN [b EXCEPT !.st = "blue", !.r.sftp = m, !.r.connects = @ + 1,
                               !.r.pc = "connect"]
                ELSE UPrevDir([b EXCEPT !.r.sftp = client[c], !.r.hadCache = TRUE,
                                        !.r.foundEnded = endCalls[client[c]] > 0])
       IN  /\ msgs' = Append(msgs, [cfg |-> c, op |-> op, src |-> src,
                                    size |-> size, after |-> 0])
           /\ run' = Append(run, n.r)
           /\ status' = [status EXCEPT ![<<c, op>>] = n.st]
           /\ endCalls' = n.ec
    /\ UNCHANGED <<flow, creds, busy, client, closers, xfer>>

\* await sftp.connect(conOpts) returns: the handle is cached, whatever the
\* cache holds by now; a rejection leaves the handler (it is outside try).
UConnectReturn(m, ok) ==
    /\ run[m].pc = "connect"
    /\ LET b == Bundle(m) IN
       IF ok THEN Apply(m, UPrevDir([b EXCEPT !.cl = b.r.sftp, !.st = "none"]))
       ELSE Apply(m, USettle(b, "threw"))

\* await sftp.cwd() returns, and the switch on node.operation runs up to
\* its first await; ensure says that workdir is neither '.' nor prevDir.
UPrevDirReturn(m, ok, ensure) ==
    /\ run[m].pc = "prevDir"
    /\ LET b == Bundle(m) IN
       IF ~ok THEN Apply(m, UFail(b))
       ELSE CASE Op(m) = "put" ->
                   IF ensure
                   THEN Apply(m, [Invoke(b, "mkdir") EXCEPT !.r.pc = "mkdir"])
                   ELSE Apply(m, [Invoke([b EXCEPT !.st = "yellow"], "put")
                                    EXCEPT !.r.pc = "upload"])
              [] Op(m) = "close" ->
                   Apply(m, [InvokeEnd(b) EXCEPT !.r.pc = "end"])
              [] Op(m) \in SingleCallOps ->
                   Apply(m, [Invoke(b, Op(m)) EXCEPT !.r.pc = "call"])
              [] OTHER -> Apply(m, UFail(b))

\* try { await sftp.mkdir(workdir, true) } catch (e) {}: then the upload.
UMkdirReturn(m, ok) ==
    /\ run[m].pc = "mkdir"
    /\ Apply(m, [Invoke([Bundle(m) EXCEPT !.st = "yellow"], "put")
                   EXCEPT !.r.pc = "upload"])

\* await sftp.put(...) returns.
UUploadReturn(m, ok) ==
    /\ run[m].pc = "upload"
    /\ IF ok THEN Apply(m, [Invoke(Bundle(m), "stat") EXCEPT !.r.pc = "stat"])
       ELSE Apply(m, UFail(Bundle(m)))

\* await sftp.stat(remoteFile) returns sz, or rejects (StatFailSize).
UStatReturn(m, sz) ==
    /\ run[m].pc = "stat"
    /\ LET b == Bundle(m) IN
       IF sz = StatFailSize \/ Mismatch(UExp(msgs[m]), sz)
       THEN Apply(m, UFail(b))
       ELSE Apply(m, USucceed([b EXCEPT !.st = "none", !.r.okSize = sz]))

\* list, get, delete, mkdir, rmdir: the single remote call returns.
UCallReturn(m, ok) ==
    /\ run[m].pc = "call"
    /\ IF ok THEN Apply(m, USucceed(Bundle(m))) ELSE Apply(m, UFail(Bundle(m)))

\* case 'close': await sftp.end(); node.cfg._client = null;
UEndReturn(m, ok) ==
    /\ run[m].pc = "end"
    /\ IF ok THEN Apply(m, USucceed([Bundle(m) EXCEPT !.cl = 0]))
       ELSE Apply(m, UFail(Bundle(m)))

NextU ==
    \/ \E c \in Cfgs, op \in {"list", "close", "bogus"} : UInput(c, op, "none", NoSize)
    \/ \E c \in Cfgs, src \in SrcKinds, size \in SrcSizes : UInput(c, "put", src, size)
    \/ \E m \in Msgs, ok \in BOOLEAN : UConnectReturn(m, ok)
    \/ \E m \in Msgs, ok \in BOOLEAN, ensure \in BOOLEAN : UPrevDirReturn(m, ok, ensure)
    \/ \E m \in Msgs, ok \in BOOLEAN : UMkdirReturn(m, ok)
    \/ \E m \in Msgs, ok \in BOOLEAN : UUploadReturn(m, ok)
    \/ \E m \in Msgs, sz \in RemoteSizes \cup {StatFailSize} : UStatReturn(m, sz)
    \/ \E m \in Msgs, ok \in BOOLEAN : UCallReturn(m, ok)
    \/ \E m \in Msgs, ok \in BOOLEAN : UEndReturn(m, ok)

SpecU == InitU /\ [][NextU]_vars

(***************************************************************************)
(* Paths of a 'put'.  A path is a sequence of tokens: the separator "/"    *)
(* and names.  One put on a cached session is followed from its inputs to  *)
(* the path it uploads to, the path it reports and the directory it        *)
(* leaves the session in.                                                  *)
(***************************************************************************)
Workdirs == {<<".">>, <<"uploads">>, <<"/", "uploads">>, <<"a", "/", "b">>}

Filenames ==
    {<<"a.txt">>, <<"/", "a.txt">>, <<"/", "/", "a.txt">>, <<"/", "/", "/", "a.txt">>}

\* msg.payload: a string that is no local file ("hello"), a string that
\* names a local file, a Buffer.
Payloads ==
    {[src |-> "literal", text |-> <<"hello">>, size |-> z] : z \in SrcSizes}
    \cup {[src |-> "file", text |-> <<"/", "tmp", "/", "f">>, size |-> z] : z \in SrcSizes}
    \cup {[src |-> "buffer", text |-> <<>>, size |-> z] : z \in SrcSizes}

\* The directory a session is in after connect.
Home == <<"/", "home">>

\* p.startsWith('/')
StartsWithSlash(p) == Len(p) > 0 /\ p[1] = "/"

\* p.slice(1)
Slice1(p) == Tail(p)

\* The names of a path, separators and empty names dropped.
Names(p) == SelectSeq(p, LAMBDA t : t # "/")

\* path.posix.normalize on names: "." is dropped, ".." takes the name
\* before it away (and is dropped at the root).
RECURSIVE NormNames(_, _, _)
NormNames(names, abs, acc) ==
    IF names = <<>> THEN acc
    ELSE LET n == Head(names)
             rest == Tail(names)
         IN  CASE n = "."  -> NormNames(rest, abs, acc)
               [] n = ".." ->
                    IF acc # <<>> /\ acc[Len(acc)] # ".."
                    THEN NormNames(rest, abs, SubSeq(acc, 1, Len(acc) - 1))
                    ELSE IF abs THEN NormNames(rest, abs, acc)
                    ELSE NormNames(rest, abs, Append(acc, ".."))
               [] OTHER    -> NormNames(rest, abs, Append(acc, n))

RECURSIVE Interleave(_)
Interleave(names) ==
    IF Len(names) <= 1 THEN names
    ELSE <<Head(names), "/">> \o Interleave(Tail(names))

\* path.posix.normalize
Normalize(p) ==
    LET abs  == StartsWithSlash(p)
        body == Interleave(NormNames(Names(p), abs, <<>>))
    IN  IF abs THEN <<"/">> \o body
        ELSE IF body = <<>> THEN <<".">> ELSE body

\* path.posix.join(a, b)
PosixJoin(a, b) ==
    IF a = <<>> THEN Normalize(b)
    ELSE IF b = <<>> THEN Normalize(a)
    ELSE Normalize(a \o <<"/">> \o b)

\* A path begins with a double separator.
DoubleSep(p) == Len(p) >= 2 /\ p[1] = "/" /\ p[2] = "/"

\* Where the session resolves path p while it is in directory cwd.
RemotePath(cwd, p) == IF StartsWithSlash(p) THEN Normalize(p) ELSE PosixJoin(cwd, p)

\* The directory of the session after changeDirectory(p) in directory cwd.
ChangeDirectory(cwd, p) == RemotePath(cwd, p)

\* payloadPath: the trimmed string payload; <<>> for null.
PayloadPath(payload) ==
    IF payload.src \in {"literal", "file"} THEN payload.text ELSE <<>>

\* const workdir = payloadPath || msg.workdir || node.workdir || '.';
Workdir(payload, workdir) ==
    IF PayloadPath(payload) # <<>> THEN PayloadPath(payload) ELSE workdir

\* if (f.startsWith('/')) f = f.slice(1);
StripSlash(f) == IF StartsWithSlash(f) THEN Slice1(f) ELSE f

NewXfer(v, w, f, p) ==
    [variant |-> v, workdir |-> w, filename |-> f, payload |-> p,
     pc |-> "start", cwd0 |-> Home, cwd |-> Home,
     wd |-> <<>>, rFile |-> <<>>, exp |-> NoSize,
     upTo |-> <<>>, path |-> <<>>, size |-> NoSize, outcome |-> "none"]

\* A put on a cached session, of either variant, about to start.
InitPath ==
    /\ InitFlow({})
    /\ xfer \in {NewXfer(v, w, f, p) : v \in {"queued", "unqueued"}, w \in Workdirs,
                                       f \in Filenames, p \in Payloads}

nodeVars == <<flow, creds, msgs, busy, run, client, endCalls, status, closers>>

\* catch (err): the put is over.
XferFail(x) == [x EXCEPT !.pc = "done", !.outcome = "err"]

\* Queued variant: run() from the derivation of workdir and rFile to
\* await sftp.mkdir(workdir, true).
PathPutStart ==
    /\ xfer.pc = "start" /\ xfer.variant = "queued"
    /\ xfer' = [xfer EXCEPT !.wd = Workdir(xfer.payload, xfer.workdir),
                            !.rFile = StripSlash(xfer.filename),
                            !.pc = "mkdir"]
    /\ UNCHANGED nodeVars

\* await sftp.mkdir(workdir, true).catch(() => {}); then sftp.cwd(workdir).
PathPutMkdirReturn(ok) ==
    /\ xfer.pc = "mkdir" /\ xfer.variant = "queued"
    /\ xfer' = [xfer EXCEPT !.pc = "cwd"]
    /\ UNCHANGED nodeVars

\* await sftp.cwd(workdir) returns; exp is computed and the upload invoked.
PathPutCwdReturn(ok) ==
    /\ xfer.pc = "cwd"
    /\ xfer' = IF ok
               THEN [xfer EXCEPT !.cwd = ChangeDirectory(xfer.cwd, xfer.wd),
                                 !.exp = Exp(xfer.payload),
                                 !.pc = "upload"]
               ELSE XferFail(xfer)
    /\ UNCHANGED nodeVars

\* await sftp.fastPut / sftp.put (src, rFile) returns; then sftp.stat(rFile).
PathPutUploadReturn(ok) ==
    /\ xfer.pc = "upload" /\ xfer.variant = "queued"
    /\ xfer' = IF ok
               THEN [xfer EXCEPT !.upTo = RemotePath(xfer.cwd, xfer.rFile),
                                 !.pc = "stat"]
               ELSE XferFail(xfer)
    /\ UNCHANGED nodeVars

\* sftp.stat(rFile) returns sz; the mismatch test, msg.payload, then
\* sftp.cwd('..').
PathPutStatReturn(sz) ==
    /\ xfer.pc = "stat" /\ xfer.variant = "queued"
    /\ xfer' = IF Mismatch(xfer.exp, sz) THEN XferFail(xfer)
               ELSE [xfer EXCEPT !.path = PosixJoin(xfer.wd, xfer.rFile),
                                 !.size = sz, !.pc = "cwdBack"]
    /\ UNCHANGED nodeVars

\* await sftp.cwd('..') returns.
PathPutCwdBackReturn(ok) ==
    /\ xfer.pc = "cwdBack"
    /\ xfer' = IF ok
               THEN [xfer EXCEPT !.cwd = ChangeDirectory(xfer.cwd, <<"..">>),
                                 !.pc = "done", !.outcome = "ok"]
               ELSE XferFail(xfer)
    /\ UNCHANGED nodeVars

\* Unqueued variant: prevDir = await sftp.cwd() has returned; workdir,
\* remoteFile and expectedSz are derived, mkdir is invoked if workdir is
\* neither '.' nor prevDir, else the upload.
UPathPutStart ==
    /\ xfer.pc = "start" /\ xfer.variant = "unqueued"
    /\ xfer' = [xfer EXCEPT !.wd = xfer.workdir,
                            !.rFile = StripSlash(PosixJoin(xfer.workdir, xfer.filename)),
                            !.exp = UExp(xfer.payload),
                            !.pc = IF xfer.workdir # <<".">> /\ xfer.workdir # xfer.cwd
                                   THEN "mkdir" ELSE "upload"]
    /\ UNCHANGED nodeVars

\* try { await sftp.mkdir(workdir, true) } catch (e) {}: then the upload.
UPathMkdirReturn(ok) ==
    /\ xfer.pc = "mkdir" /\ xfer.variant = "unqueued"
    /\ xfer' = [xfer EXCEPT !.pc = "upload"]
    /\ UNCHANGED nodeVars

\* await sftp.put(uploadSrc, remoteFile) returns; then sftp.stat(remoteFile).
UPathUploadReturn(ok) ==
    /\ xfer.pc = "upload" /\ xfer.variant = "unqueued"
    /\ xfer' = IF ok
               THEN [xfer EXCEPT !.upTo = RemotePath(xfer.cwd, xfer.rFile),
                                 !.pc = "stat"]
               ELSE XferFail(xfer)
    /\ UNCHANGED nodeVars

\* await sftp.stat(remoteFile) returns sz, or rejects (StatFailSize).
UPathStatReturn(sz) ==
    /\ xfer.pc = "stat" /\ xfer.variant = "unqueued"
    /\ xfer' = IF sz = StatFailSize \/ Mismatch(xfer.exp, sz) THEN XferFail(xfer)
               ELSE [xfer EXCEPT !.path = xfer.rFile, !.size = sz,
                                 !.pc = "done", !.outcome = "ok"]
    /\ UNCHANGED nodeVars

NextPath ==
    \/ PathPutStart
    \/ \E ok \in BOOLEAN : PathPutMkdirReturn(ok)
    \/ \E ok \in BOOLEAN : PathPutCwdReturn(ok)
    \/ \E ok \in BOOLEAN : PathPutUploadReturn(ok)
    \/ \E sz \in RemoteSizes \cup {StatFailSize} : PathPutStatReturn(sz)
    \/ \E ok \in BOOLEAN : PathPutCwdBackReturn(ok)
    \/ UPathPutStart
    \/ \E ok \in BOOLEAN : UPathMkdirReturn(ok)
    \/ \E ok \in BOOLEAN : UPathUploadReturn(ok)
    \/ \E sz \in RemoteSizes \cup {StatFailSize} : UPathStatReturn(sz)

SpecPath == InitPath /\ [][NextPath]_vars

(***************************************************************************)
(* Properties                                                              *)
(***************************************************************************)
\* run(m) was called (a then-callback skipped by a rejected chain does not
\* call it).
Started(m)  == run[m].pc # "queued" /\ run[m].outcome # "skipped"
Finished(m) == run[m].pc = "done"
Active(m)   == Started(m) /\ ~Finished(m)

\* sftp.connect() of run(m) succeeded.
Connected(m) == run[m].connects > 0 /\ run[m].outcome \in {"ok", "err"}

\* A close handler has invoked end() on a session of configuration node c.
RedeployTeardown(c) ==
    \E h \in 1..Len(closers) : closers[h].cfg = c /\ closers[h].cli # 0

\* C1: at most one run() of a configuration node is between its start and
\* its end at any instant.
MutualExclusion ==
    \A m1, m2 \in Msgs :
        (m1 # m2 /\ Cfg(m1) = Cfg(m2)) => ~(Active(m1) /\ Active(m2))

\* C1 witness: a run is in progress while a later message of the same
\* configuration node waits in the chain.
MutualExclusionWitness ==
    \E m1, m2 \in Msgs :
        /\ Cfg(m1) = Cfg(m2) /\ Prev(m2) = m1
        /\ Active(m1) /\ run[m2].pc = "queued"

\* The runs of a configuration node start in the order of submission, each
\* after the run before it has returned.
ChainOrder ==
    \A m \in Msgs : (Started(m) /\ Prev(m) # 0) => Finished(Prev(m))

\* C2 (as claimed): N+1 never begins before N has finished and N's
\* completion signal (a call of done) has fired.
StartsAfterDoneSignal ==
    \A m \in Msgs :
        (Started(m) /\ Prev(m) # 0)
            => /\ Finished(Prev(m))
               /\ run[Prev(m)].doneOk + run[Prev(m)].doneErr >= 1

\* C3: every message queued is eventually started, whatever happened to the
\* operations before it, when every remote call returns.
EveryQueuedStarts ==
    \A i \in 1..MaxMsgs : (Len(msgs) >= i) ~> (Len(msgs) >= i /\ Started(i))

\* C3 witness: an operation was started after the run before it failed.
EveryQueuedStartsWitness ==
    \E m \in Msgs :
        /\ Started(m) /\ Prev(m) # 0
        /\ run[Prev(m)].outcome \in {"err", "connfail", "threw"}

\* C4 (as claimed): every handled message gets exactly one call of done,
\* without an error after a success and with the error after a failure.
ExactlyOneDone ==
    \A m \in Msgs :
        Finished(m) =>
            /\ run[m].doneOk + run[m].doneErr = 1
            /\ run[m].outcome = "ok" => run[m].doneOk = 1
            /\ run[m].outcome # "ok" => run[m].doneErr = 1

\* C5: a cached session is used by every later operation without a second
\* connect, is not ended by an operation other than 'close', and stays
\* cached from one operation to the next until a 'close' operation or a
\* redeploy clears it; 'open' makes no remote call but connect.
CachedSessionReused ==
    /\ \A m \in Msgs :
          (Started(m) /\ run[m].hadCache) =>
              /\ run[m].connects = 0
              /\ Op(m) # "close" => run[m].ends = 0
              /\ (Finished(m) /\ Op(m) # "close" /\ ~RedeployTeardown(Cfg(m)))
                    => run[m].cacheAtEnd = run[m].sftp
    /\ \A m \in Msgs :
          (Finished(m) /\ Op(m) = "open" /\ run[m].outcome = "ok" /\ ~run[m].hadCache)
              => run[m].cacheAtEnd = m
    /\ \A m \in Msgs :
          (Started(m) /\ Prev(m) # 0 /\ run[Prev(m)].cacheAtEnd # 0
                /\ ~RedeployTeardown(Cfg(m)))
              => run[m].hadCache /\ run[m].sftp = run[Prev(m)].cacheAtEnd
    /\ \A m \in Msgs :
          Op(m) = "open" => ~run[m].called /\ run[m].ends = 0

\* C5 witness: after an 'open' that connected, a list ran on its session.
CachedSessionReusedWitness ==
    \E m \in Msgs :
        /\ Prev(m) # 0 /\ Op(Prev(m)) = "open" /\ ~run[Prev(m)].hadCache
        /\ Op(m) = "list" /\ Finished(m) /\ run[m].outcome = "ok"
        /\ run[m].sftp = Prev(m) /\ client[Cfg(m)] = Prev(m)

\* C6 (as claimed): when a 'close' operation has completed, the cached
\* session of its configuration node is empty.
CloseClearsCache ==
    \A m \in Msgs :
        (Finished(m) /\ Op(m) = "close" /\ run[m].outcome \in {"ok", "err"})
            => run[m].cacheAtEnd = 0

\* C7 (as claimed): no operation finds in the cache, or makes a file or
\* directory call on, a session on which end() has been invoked.
EndedNeverReused ==
    \A m \in Msgs : ~run[m].foundEnded /\ ~run[m].usedEnded

\* C8: a session opened for one operation other than 'open' is ended before
\* run() finishes, on success and on failure, and the cache is empty then;
\* an operation other than 'close' never ends a session it found cached.
AutoCloseAlways ==
    /\ \A m \in Msgs :
          (Finished(m) /\ Op(m) # "open" /\ ~run[m].hadCache /\ Connected(m))
              => /\ run[m].ends >= 1
                 /\ endCalls[run[m].sftp] >= 1
                 /\ run[m].cacheAtEnd = 0
    /\ \A m \in Msgs :
          (run[m].hadCache /\ Op(m) # "close") => run[m].ends = 0

\* C8 witness: an operation that connected for itself failed and has finished.
AutoCloseAlwaysWitness ==
    \E m \in Msgs :
        /\ Finished(m) /\ Op(m) \in {"list", "put", "bogus"}
        /\ ~run[m].hadCache /\ Connected(m) /\ run[m].outcome = "err"

\* C9: after a failed connect the cache is empty as before, no file or
\* directory call and no second connect was made, and the error was
\* delivered by done(err) once, with nothing sent.
ConnectFailure ==
    /\ \A m \in Msgs : run[m].pc = "connect" => client[Cfg(m)] = 0
    /\ \A m \in Msgs :
          run[m].outcome = "connfail" =>
              /\ ~run[m].hadCache /\ run[m].cacheAtEnd = 0
              /\ ~run[m].called /\ run[m].ends = 0
              /\ run[m].connects = 1
              /\ run[m].doneErr = 1 /\ run[m].doneOk = 0 /\ run[m].sent = 0

\* C9 witness: the connect of an 'open' failed.
ConnectFailureWitness ==
    \E m \in Msgs : Op(m) = "open" /\ run[m].outcome = "connfail"

\* C10 (as claimed): a put whose source has a determinable size (a local
\* file, literal content, a buffer) reports success only with a remote size
\* equal to the expected size.
PutVerified ==
    \A m \in Msgs :
        (Op(m) = "put" /\ msgs[m].src \in {"file", "literal", "buffer"}
              /\ run[m].sent > 0)
            => run[m].okSize = msgs[m].size

\* The messages queued on the configuration node of close handler h before
\* its close event.
QueuedBefore(h) ==
    {m \in Msgs : Cfg(m) = closers[h].cfg /\ m <= closers[h].after}

\* C11 (as claimed): in the queued variant a string payload of a put is
\* the upload source only: the working directory is the request/config
\* workdir, and put with workdir "/uploads", filename "/a.txt", payload
\* "hello" expects 5 bytes and reports path "uploads/a.txt" with size 5.
PutPayloadIsSource ==
    (xfer.variant = "queued" /\ xfer.pc # "start") =>
        /\ xfer.wd = xfer.workdir
        /\ (/\ xfer.workdir = <<"/", "uploads">>
            /\ xfer.filename = <<"/", "a.txt">>
            /\ xfer.payload.src = "literal"
            /\ xfer.outcome = "ok")
              => /\ xfer.exp = xfer.payload.size
                 /\ xfer.size = xfer.payload.size
                 /\ xfer.path = <<"uploads", "/", "a.txt">>

\* Session s of the unqueued variant is connected and end() has not been
\* invoked on it.
ULive(s) ==
    /\ run[s].connects > 0
    /\ run[s].pc # "connect"
    /\ run[s].outcome # "threw"
    /\ endCalls[s] = 0

\* C12 (as claimed): in the unqueued variant a configuration node has at
\* most one connected, not-yet-ended session at any time, and that session
\* is the one in its cache.
SingleLiveSession ==
    \A s1, s2 \in Msgs :
        (ULive(s1) /\ ULive(s2) /\ Cfg(s1) = Cfg(s2))
            => s1 = s2 /\ client[Cfg(s1)] = s1

\* C13: a close handler ends the cached session and clears the cache only
\* after every operation queued before its close event has finished, and
\* doneClose is then eventually called, exactly once, whatever end() does.
RedeployDrains ==
    /\ [](\A h \in 1..Len(closers) :
            /\ closers[h].pc # "waiting" => \A m \in QueuedBefore(h) : Finished(m)
            /\ closers[h].doneClose = IF closers[h].pc = "done" THEN 1 ELSE 0)
    /\ \A h \in 1..MaxCloses :
          (Len(closers) >= h) ~> (Len(closers) >= h /\ closers[h].doneClose = 1)

\* C13 witness: a close handler that had to wait for an operation has ended
\* the cached session and called doneClose.
RedeployDrainsWitness ==
    \E h \in 1..Len(closers) :
        /\ closers[h].pc = "done" /\ closers[h].cli # 0
        /\ QueuedBefore(h) # {}
        /\ client[closers[h].cfg] = 0

\* The flow node of message m has had no later operation started.
LastOnNode(m) ==
    \A k \in Msgs :
        (k > m /\ Cfg(k) = Cfg(m) /\ Op(k) = Op(m)) => run[k].pc = "queued"

\* C14 (as claimed): after a successful operation the node status is
\* empty, and after a failed one the red status stays until the next
\* operation of that node starts.
StatusFollowsOutcome ==
    \A m \in Msgs :
        (Finished(m) /\ LastOnNode(m)) =>
            /\ run[m].outcome = "ok" => status[<<Cfg(m), Op(m)>>] = "none"
            /\ run[m].outcome \in {"err", "connfail"}
                  => status[<<Cfg(m), Op(m)>>] \in {"redError", "redConnect"}

\* C15 (as claimed): a 'close' operation that has a session finishes as a
\* success with no error on the completion signal, whatever end() does.
CloseNeverFails ==
    \A m \in Msgs :
        (Op(m) = "close" /\ Finished(m) /\ (run[m].hadCache \/ Connected(m)))
            => run[m].outcome = "ok" /\ run[m].doneErr = 0 /\ run[m].sent = 1

\* C17: the start of a queued operation is held back only by an unfinished
\* earlier operation of its own configuration node, never by an operation
\* of another configuration node, whether that one is slow or failing.
CfgsIndependent ==
    \A m \in Msgs :
        (run[m].pc = "queued" /\ ~CanStart(m))
            => \E k \in Msgs : k < m /\ Cfg(k) = Cfg(m) /\ ~Finished(k)

\* C17 witness: an operation of each configuration node is in progress at
\* the same time, the later one started while the earlier one was waiting
\* for a remote call.
CfgsIndependentWitness ==
    \E m1, m2 \in Msgs :
        /\ m1 < m2 /\ Cfg(m1) # Cfg(m2)
        /\ Active(m1) /\ Active(m2)
        /\ run[m1].called /\ run[m2].called

\* C16 (as claimed): for a put whose file name starts with '/', in both
\* variants, the path given to the upload and the path reported in the
\* result never begin with a double separator, and the queued variant
\* uploads to the file name less exactly one leading '/'.
LeadingSlashStripped ==
    (StartsWithSlash(xfer.filename) /\ xfer.upTo # <<>>) =>
        /\ ~DoubleSep(xfer.rFile)
        /\ ~DoubleSep(xfer.path)
        /\ xfer.variant = "queued" => xfer.rFile = Slice1(xfer.filename)

\* C18 (as claimed): a put of the queued variant on a cached session
\* leaves the session in the directory it was in before, on success and on
\* every failure.
PutKeepsCwd ==
    (xfer.variant = "queued" /\ xfer.pc = "done") => xfer.cwd = xfer.cwd0

\* C19: a run() never both sends a result and delivers an error, and never
\* delivers an error more than once.
OutcomesExclusive ==
    \A m \in Msgs :
        /\ ~(run[m].sent > 0 /\ run[m].doneErr > 0)
        /\ run[m].doneErr <= 1
        /\ run[m].sent <= 1

\* C19 witness: a list whose connect failed has delivered its error.
OutcomesExclusiveWitness ==
    \E m \in Msgs :
        Op(m) = "list" /\ run[m].outcome = "connfail" /\ run[m].doneErr = 1

\* C20 (as claimed): end() is invoked at most once on any session.
EndAtMostOnce ==
    \A s \in 1..Len(endCalls) : endCalls[s] <= 1

====
